---- MODULE Spec2Model ----
(***************************************************************************)
(* Model of src/build.js (FPL Weekly build script): main() fetches the two *)
(* provider endpoints, buildHTML() selects the reference gameweek, groups  *)
(* its fixtures by calendar date, computes six player rankings and renders *)
(* them, and main() writes the output files.                               *)
(***************************************************************************)
EXTENDS Integers, Sequences, FiniteSets, TLC

(***************************************************************************)
(* Bounds of the model.                                                    *)
(***************************************************************************)
MaxEvents == 2      \* longest gameweek list
MaxFixtures == 3    \* longest fixture list
MaxRich == 2        \* longest player list drawn from RichProfiles
MaxPlayers == 9     \* longest player list drawn from one pool of PlayerPools

HoursPerDay == 24   \* toDateString() truncates an instant to its calendar day

UNDEFINED == [undefined |-> TRUE]   \* JavaScript undefined
NONE == "none"                      \* nothing thrown / nothing produced yet

(***************************************************************************)
(* Sequence helpers (Array.prototype.filter, slice, find).                 *)
(***************************************************************************)
Min(S) == CHOOSE x \in S : \A y \in S : x <= y

Range(s) == {s[i] : i \in 1..Len(s)}

\* Variant: the slice is forgotten.
SliceAll(s, n) == s

Slice(s, n) == IF Len(s) <= n THEN s ELSE SubSeq(s, 1, n)

SeqsUpTo(S, n) == UNION {[1..k -> S] : k \in 0..n}

(***************************************************************************)
(* Decimal-as-string fields.  A string is a sequence of one-character      *)
(* strings.  parseFloat reads the longest prefix  [+-]digits[.digits]  and *)
(* yields NaN when that prefix holds no digit.  A number is kept exactly,  *)
(* as num/scale with scale a power of ten.                                 *)
(***************************************************************************)
DigitChars == <<"0", "1", "2", "3", "4", "5", "6", "7", "8", "9">>

\* The value of each digit character.
DigitTable ==
  [c \in Range(DigitChars) |->
     (CHOOSE i \in 1..Len(DigitChars) : DigitChars[i] = c) - 1]

IsDigit(c) == c \in DOMAIN DigitTable

DigitVal(c) == DigitTable[c]

NaN == [nan |-> TRUE, num |-> 0, scale |-> 1]

Num(n) == [nan |-> FALSE, num |-> n, scale |-> 1]

\* Length of the run of digits of s that starts at position i.
RECURSIVE DigitRun(_, _)
DigitRun(s, i) ==
  IF i <= Len(s) /\ IsDigit(s[i]) THEN 1 + DigitRun(s, i + 1) ELSE 0

\* Value of the digits s[i..j], read as a decimal integer.
RECURSIVE DigitsValue(_, _, _)
DigitsValue(s, i, j) ==
  IF j < i THEN 0 ELSE 10 * DigitsValue(s, i, j - 1) + DigitVal(s[j])

RECURSIVE Pow10(_)
Pow10(k) == IF k = 0 THEN 1 ELSE 10 * Pow10(k - 1)

ParseFloat(s) ==
  LET signed == Len(s) >= 1 /\ s[1] \in {"+", "-"}
      start  == IF signed THEN 2 ELSE 1
      sign   == IF signed /\ s[1] = "-" THEN -1 ELSE 1
      nInt   == DigitRun(s, start)
      dot    == start + nInt
      hasDot == dot <= Len(s) /\ s[dot] = "."
      nFrac  == IF hasDot THEN DigitRun(s, dot + 1) ELSE 0
  IN  IF nInt + nFrac = 0
        THEN NaN
        ELSE [nan   |-> FALSE,
              num   |-> sign * (DigitsValue(s, start, dot - 1) * Pow10(nFrac)
                                + DigitsValue(s, dot + 1, dot + nFrac)),
              scale |-> Pow10(nFrac)]

\* x > y on JavaScript numbers: false when either side is NaN.
NumGT(x, y) == ~x.nan /\ ~y.nan /\ x.num * y.scale > y.num * x.scale

\* x - y as used by a sort comparator: only its sign matters, and a NaN
\* result is treated by Array.prototype.sort as 0.
NumDiff(x, y) ==
  IF x.nan \/ y.nan THEN 0 ELSE x.num * y.scale - y.num * x.scale

(***************************************************************************)
(* The provider's data: what the two endpoints return in one build run.    *)
(* Gameweeks (bootstrap.events), fixtures and players (bootstrap.elements) *)
(* are drawn from bounded sets; tz is the build machine's offset from UTC, *)
(* in hours.                                                               *)
(***************************************************************************)
Event(i, n, c, f) == [id |-> i, is_next |-> n, is_current |-> c, finished |-> f]

\* Gameweek lists in any order of their ids 1..k, with at most one is_next and
\* at most one is_current gameweek (the provider flags one of each at most).
EventLists ==
  UNION {
    {e \in [1..k -> [id : 1..k, is_next : BOOLEAN, is_current : BOOLEAN,
                     finished : BOOLEAN]] :
        /\ \A i, j \in 1..k : i # j => e[i].id # e[j].id
        /\ Cardinality({i \in 1..k : e[i].is_next}) <= 1
        /\ Cardinality({i \in 1..k : e[i].is_current}) <= 1}
    : k \in 0..MaxEvents}

BaseEvents == <<Event(1, FALSE, TRUE, FALSE), Event(2, TRUE, FALSE, FALSE)>>

\* kickoff_time is an ISO-8601 UTC string; its day and hour fields are kept.
KickoffTimes == [day : {1, 2}, hour : {12, HoursPerDay - 1}]

\* Fixtures of gameweek 2 (the reference gameweek of BaseEvents) at every
\* kickoff time, and a fixture of another gameweek.
FixtureProfiles ==
  [event : {2}, kickoff_time : KickoffTimes]
  \cup {[event |-> 1, kickoff_time |-> [day |-> 1, hour |-> 12]]}

WithIds(s) == [i \in 1..Len(s) |-> [id |-> i] @@ s[i]]

FixtureLists == {WithIds(s) : s \in SeqsUpTo(FixtureProfiles, MaxFixtures)}

BaseFixtures == WithIds(<<[event |-> 2, kickoff_time |-> [day |-> 1, hour |-> 12]]>>)

TzOffsets == {0, 1}

Str2_0 == <<"2", ".", "0">>
Str2_5 == <<"2", ".", "5">>
Str3_0 == <<"3", ".", "0">>
Str10_0 == <<"1", "0", ".", "0">>
Str0_0 == <<"0", ".", "0">>
Str4_5 == <<"4", ".", "5">>
Str3_5 == <<"3", ".", "5">>
Str0_5 == <<"0", ".", "5">>
Str12_5 == <<"1", "2", ".", "5">>
StrBad == <<"x">>

Player(st, pos, own, form, tin, tout, cost) ==
  [status |-> st, element_type |-> pos, selected_by_percent |-> own,
   form |-> form, transfers_in_event |-> tin, transfers_out_event |-> tout,
   cost_change_event |-> cost]

\* "n" is a status code outside the provider's documented set a, d, i, s, u,
\* and 5 a position code outside 1..4.
AllProfiles ==
  [status : {"a", "d", "n"},
   element_type : {3, 5},
   selected_by_percent : {Str2_0, Str2_5, Str3_0, Str10_0, StrBad},
   form : {Str0_0, Str3_0, Str4_5, StrBad},
   transfers_in_event : 0..1, transfers_out_event : 0..1,
   cost_change_event : -1..1]

BaseProfile == Player("d", 3, Str10_0, Str3_0, 1, 1, 0)

\* Profiles that differ from BaseProfile in at most one field.
RichProfiles ==
  {p \in AllProfiles :
     Cardinality({f \in DOMAIN p : p[f] # BaseProfile[f]}) <= 1}

\* Pools for long player lists: many players pass every filter, with ties.
PlayerPools ==
  { {Player("d", 1, Str10_0, Str3_0, 1, 2, 1), Player("i", 2, Str3_5, Str4_5, 2, 1, 2)},
    {Player("s", 3, Str12_5, Str0_5, 0, 0, -1), Player("u", 4, Str4_5, Str10_0, 0, 1, -2)} }

PlayerLists ==
  {WithIds(s) : s \in SeqsUpTo(RichProfiles, MaxRich)
                      \cup UNION {SeqsUpTo(pool, MaxPlayers) : pool \in PlayerPools}}

BasePlayers == WithIds(<<BaseProfile>>)

Input(e, f, p, z) == [events |-> e, fixtures |-> f, players |-> p, tz |-> z]

Inputs ==
  {Input(e, f, BasePlayers, 0) : e \in EventLists, f \in {<<>>, BaseFixtures}}
  \cup {Input(BaseEvents, f, BasePlayers, z) : f \in FixtureLists, z \in TzOffsets}
  \cup {Input(BaseEvents, BaseFixtures, p, 0) : p \in PlayerLists}

(***************************************************************************)
(* getCurrentGameweek: Array.prototype.find returns the first element, in  *)
(* list order, that satisfies the predicate, and undefined when none does; *)
(* events[events.length - 1] is undefined for an empty list.               *)
(***************************************************************************)
\* Variant: is_current is tried before is_next.
GetCurrentGameweekCurrentFirst(events) ==
  LET next       == {i \in 1..Len(events) : events[i].is_next}
      current    == {i \in 1..Len(events) : events[i].is_current}
      unfinished == {i \in 1..Len(events) : ~events[i].finished}
  IN  IF current # {} THEN events[Min(current)]
      ELSE IF next # {} THEN events[Min(next)]
      ELSE IF unfinished # {} THEN events[Min(unfinished)]
      ELSE IF Len(events) > 0 THEN events[Len(events)]
      ELSE UNDEFINED

\* Variant: the last fallback takes events[0] instead of the last element.
GetCurrentGameweekFirstFallback(events) ==
  LET next       == {i \in 1..Len(events) : events[i].is_next}
      current    == {i \in 1..Len(events) : events[i].is_current}
      unfinished == {i \in 1..Len(events) : ~events[i].finished}
  IN  IF next # {} THEN events[Min(next)]
      ELSE IF current # {} THEN events[Min(current)]
      ELSE IF unfinished # {} THEN events[Min(unfinished)]
      ELSE IF Len(events) > 0 THEN events[1]
      ELSE UNDEFINED

GetCurrentGameweek(events) ==
  LET next       == {i \in 1..Len(events) : events[i].is_next}
      current    == {i \in 1..Len(events) : events[i].is_current}
      unfinished == {i \in 1..Len(events) : ~events[i].finished}
  IN  IF next # {} THEN events[Min(next)]
      ELSE IF current # {} THEN events[Min(current)]
      ELSE IF unfinished # {} THEN events[Min(unfinished)]
      ELSE IF Len(events) > 0 THEN events[Len(events)]
      ELSE UNDEFINED

(***************************************************************************)
(* Dates.  new Date(kickoff_time) is the instant, in hours since the epoch;*)
(* toDateString() names the calendar day of that instant in the build      *)
(* machine's local time zone.                                              *)
(***************************************************************************)
DateOf(kickoff_time) == kickoff_time.day * HoursPerDay + kickoff_time.hour

ToDateString(t, tz) == (t + tz) \div HoursPerDay

(***************************************************************************)
(* Sort comparators, one per call of Array.prototype.sort.                 *)
(***************************************************************************)
\* Variant: the PriceFallers comparator copied from PriceRisers (b - a).
CompareFallersDescending(kind, a, b) ==
  CASE kind = "kickoff_time" ->
         DateOf(a.kickoff_time) - DateOf(b.kickoff_time)
    [] kind = "transfers_in_event" ->
         b.transfers_in_event - a.transfers_in_event
    [] kind = "transfers_out_event" ->
         b.transfers_out_event - a.transfers_out_event
    [] kind = "form" ->
         NumDiff(ParseFloat(b.form), ParseFloat(a.form))
    [] kind = "selected_by_percent" ->
         NumDiff(ParseFloat(b.selected_by_percent), ParseFloat(a.selected_by_percent))
    [] kind = "cost_change_desc" ->
         b.cost_change_event - a.cost_change_event
    [] kind = "cost_change_asc" ->
         b.cost_change_event - a.cost_change_event

Compare(kind, a, b) ==
  CASE kind = "kickoff_time" ->
         DateOf(a.kickoff_time) - DateOf(b.kickoff_time)
    [] kind = "transfers_in_event" ->
         b.transfers_in_event - a.transfers_in_event
    [] kind = "transfers_out_event" ->
         b.transfers_out_event - a.transfers_out_event
    [] kind = "form" ->
         NumDiff(ParseFloat(b.form), ParseFloat(a.form))
    [] kind = "selected_by_percent" ->
         NumDiff(ParseFloat(b.selected_by_percent), ParseFloat(a.selected_by_percent))
    [] kind = "cost_change_desc" ->
         b.cost_change_event - a.cost_change_event
    [] kind = "cost_change_asc" ->
         a.cost_change_event - b.cost_change_event

\* Variant: an unstable insertion, x goes before the elements it ties with.
InsertBeforeTies(kind, s, x) ==
  LET later == {i \in 1..Len(s) : Compare(kind, x, s[i]) <= 0}
      at    == Min(later)
  IN  IF later = {} THEN Append(s, x)
      ELSE SubSeq(s, 1, at - 1) \o <<x>> \o SubSeq(s, at, Len(s))

\* Array.prototype.sort is stable: x goes before the first element that the
\* comparator orders strictly after it, behind every element it ties with.
InsertSorted(kind, s, x) ==
  LET later == {i \in 1..Len(s) : Compare(kind, x, s[i]) < 0}
      at    == Min(later)
  IN  IF later = {} THEN Append(s, x)
      ELSE SubSeq(s, 1, at - 1) \o <<x>> \o SubSeq(s, at, Len(s))

RECURSIVE Sort(_, _)
Sort(kind, s) ==
  IF s = <<>> THEN <<>>
  ELSE InsertSorted(kind, Sort(kind, SubSeq(s, 1, Len(s) - 1)), s[Len(s)])

(***************************************************************************)
(* Fixture grouping (buildHTML, fixturesByDate).  The object's keys are    *)
(* date strings, so Object.entries and Object.values enumerate the groups  *)
(* in the order the keys were first inserted.                              *)
(***************************************************************************)
FilterFixtures(fixtures, gw) == SelectSeq(fixtures, LAMBDA f : f.event = gw.id)

RECURSIVE GroupByDate(_, _)
GroupByDate(fs, tz) ==
  IF fs = <<>> THEN <<>>
  ELSE LET prev == GroupByDate(SubSeq(fs, 1, Len(fs) - 1), tz)
           f    == fs[Len(fs)]
           date == ToDateString(DateOf(f.kickoff_time), tz)
           at   == {i \in 1..Len(prev) : prev[i].date = date}
       IN  IF at = {}
             THEN Append(prev, [date |-> date, fixtures |-> <<f>>])
             ELSE [prev EXCEPT ![Min(at)].fixtures = Append(@, f)]

SortDayFixtures(groups) ==
  [i \in 1..Len(groups) |->
     [groups[i] EXCEPT !.fixtures = Sort("kickoff_time", @)]]

(***************************************************************************)
(* The six ranking operations (buildHTML).                                 *)
(***************************************************************************)
RankLimit == 5
InjuryLimit == 8

\* Variant: ownership compared with >= instead of >.
FormFilterInclusive(p) ==
  /\ ~NumGT(Num(2), ParseFloat(p.selected_by_percent))
  /\ ~ParseFloat(p.selected_by_percent).nan
  /\ NumGT(ParseFloat(p.form), Num(0))

FormFilter(p) ==
  /\ NumGT(ParseFloat(p.selected_by_percent), Num(2))
  /\ NumGT(ParseFloat(p.form), Num(0))

InjuryFilter(p) ==
  /\ p.status # "a"
  /\ NumGT(ParseFloat(p.selected_by_percent), Num(3))

RiserFilter(p) == p.cost_change_event > 0

FallerFilter(p) == p.cost_change_event < 0

\* Array.prototype.sort sorts the array it is called on, in place, and returns
\* it.  These give both arrays after the call: the players array of the
\* snapshot, and the array that was sorted.
\* Variant: players.sort(...) without the copy; the snapshot's array is sorted.
SortSnapshotInPlace(kind, players) ==
  [players |-> Sort(kind, players), sorted |-> Sort(kind, players)]

\* [...players].sort(cmp): the spread makes a new array, which is sorted.
SpreadThenSort(kind, players) ==
  LET heap == [players |-> players, sorted |-> players]
  IN  [heap EXCEPT !.sorted = Sort(kind, @)]

\* players.filter(pred).sort(cmp): filter makes a new array, filtered, which
\* is sorted.
FilterThenSort(kind, players, filtered) ==
  LET heap == [players |-> players, sorted |-> filtered]
  IN  [heap EXCEPT !.sorted = Sort(kind, @)]

\* Each ranking statement: the players array after it, and its result.
Ranked(heap, limit) ==
  [players |-> heap.players, result |-> Slice(heap.sorted, limit)]

TopTransfersIn(players) ==
  Ranked(SpreadThenSort("transfers_in_event", players), RankLimit)

TopTransfersOut(players) ==
  Ranked(SpreadThenSort("transfers_out_event", players), RankLimit)

FormPlayers(players) ==
  Ranked(FilterThenSort("form", players, SelectSeq(players, FormFilter)),
         RankLimit)

Injuries(players) ==
  Ranked(FilterThenSort("selected_by_percent", players, SelectSeq(players, InjuryFilter)),
         InjuryLimit)

PriceRisers(players) ==
  Ranked(FilterThenSort("cost_change_desc", players, SelectSeq(players, RiserFilter)),
         RankLimit)

PriceFallers(players) ==
  Ranked(FilterThenSort("cost_change_asc", players, SelectSeq(players, FallerFilter)),
         RankLimit)

\* statusEmoji[p.status] || '?': a status without an entry renders as '?'.
StatusEmoji(status) ==
  CASE status = "a" -> "ok"
    [] status = "d" -> "warning"
    [] status = "i" -> "injured"
    [] status = "s" -> "red-card"
    [] status = "u" -> "cross"
    [] OTHER -> "question-mark"

\* positionName[p.element_type]: a code without an entry is undefined, which
\* the template prints as the text "undefined".
PositionName(element_type) ==
  CASE element_type = 1 -> "GKP"
    [] element_type = 2 -> "DEF"
    [] element_type = 3 -> "MID"
    [] element_type = 4 -> "FWD"
    [] OTHER -> "undefined"

(***************************************************************************)
(* State of one build run (main).                                          *)
(***************************************************************************)
VARIABLES
  provider,        \* what the provider's endpoints return, and the machine's tz
  pc,              \* the statement main/buildHTML executes next
  requests,        \* endpoints requested so far, in order
  bootstrap,       \* fetchFPLData: the bootstrap-static payload
  fixtures,        \* fetchFPLData: the fixtures payload
  currentGW,       \* buildHTML: the reference gameweek
  gwFixtures,      \* buildHTML: fixtures of the reference gameweek
  fixturesByDate,  \* buildHTML: date groups, in key insertion order
  topTransfersIn, topTransfersOut, formPlayers, injuries, priceRisers,
  priceFallers,    \* buildHTML: the six rankings
  html,            \* what buildHTML returned
  files,           \* files written by main
  log,             \* console output of the run
  error,           \* what main's catch block caught
  exitCode         \* process.exit code, NONE while the process has not exited

fetched == <<bootstrap, fixtures>>
grouping == <<currentGW, gwFixtures, fixturesByDate>>
rankings == <<topTransfersIn, topTransfersOut, formPlayers, injuries,
              priceRisers, priceFallers>>
outcome == <<html, files, error, exitCode>>
vars == <<provider, pc, requests, fetched, grouping, rankings, outcome, log>>

Init ==
  /\ provider \in Inputs
  /\ pc = "fetchBootstrap"
  /\ requests = <<>>
  /\ bootstrap = UNDEFINED
  /\ fixtures = <<>>
  /\ currentGW = UNDEFINED
  /\ gwFixtures = <<>>
  /\ fixturesByDate = <<>>
  /\ topTransfersIn = <<>>
  /\ topTransfersOut = <<>>
  /\ formPlayers = <<>>
  /\ injuries = <<>>
  /\ priceRisers = <<>>
  /\ priceFallers = <<>>
  /\ html = UNDEFINED
  /\ files = {}
  /\ log = <<"fetching">>
  /\ error = NONE
  /\ exitCode = NONE

\* main's catch block: log the failure and exit with code 1.
Fail(kind) ==
  /\ pc' = "failed"
  /\ error' = kind
  /\ exitCode' = 1
  /\ log' = Append(log, "build-failed")

\* fetchJSON(bootstrap-static) resolves.
FetchBootstrap ==
  /\ pc = "fetchBootstrap"
  /\ requests' = Append(requests, "bootstrap-static")
  /\ bootstrap' = [elements |-> provider.players, events |-> provider.events]
  /\ pc' = "fetchFixtures"
  /\ UNCHANGED <<provider, fixtures, grouping, rankings, outcome, log>>

\* fetch rejects, or the response is not ok: fetchJSON throws.
FetchBootstrapFails ==
  /\ pc = "fetchBootstrap"
  /\ requests' = Append(requests, "bootstrap-static")
  /\ Fail("FetchError")
  /\ UNCHANGED <<provider, fetched, grouping, rankings, html, files>>

FetchFixtures ==
  /\ pc = "fetchFixtures"
  /\ requests' = Append(requests, "fixtures")
  /\ fixtures' = provider.fixtures
  /\ log' = Append(log, "data-fetched")
  /\ pc' = "selectGameweek"
  /\ UNCHANGED <<provider, bootstrap, grouping, rankings, outcome>>

\* Variant: a failed fixtures request is sent again instead of ending the run.
FetchFixturesRetried ==
  /\ pc = "fetchFixtures"
  /\ requests' = Append(requests, "fixtures")
  /\ pc' = "fetchFixtures"
  /\ UNCHANGED <<provider, fetched, grouping, rankings, outcome, log>>

FetchFixturesFails ==
  /\ pc = "fetchFixtures"
  /\ requests' = Append(requests, "fixtures")
  /\ Fail("FetchError")
  /\ UNCHANGED <<provider, fetched, grouping, rankings, html, files>>

\* const currentGW = getCurrentGameweek(events)
SelectGameweek ==
  /\ pc = "selectGameweek"
  /\ currentGW' = GetCurrentGameweek(bootstrap.events)
  /\ pc' = "filterFixtures"
  /\ UNCHANGED <<provider, requests, fetched, gwFixtures, fixturesByDate,
                 rankings, outcome, log>>

\* fixtures.filter(f => f.event === currentGW.id): the callback runs once per
\* fixture, so reading currentGW.id throws only when there is a fixture.
FilterGameweekFixtures ==
  /\ pc = "filterFixtures"
  /\ IF currentGW = UNDEFINED /\ fixtures # <<>>
       THEN /\ Fail("TypeError")
            /\ UNCHANGED <<gwFixtures, html, files>>
       ELSE /\ gwFixtures' = IF currentGW = UNDEFINED THEN <<>>
                             ELSE FilterFixtures(fixtures, currentGW)
            /\ pc' = "groupFixtures"
            /\ UNCHANGED <<outcome, log>>
  /\ UNCHANGED <<provider, requests, fetched, currentGW, fixturesByDate, rankings>>

GroupFixtures ==
  /\ pc = "groupFixtures"
  /\ fixturesByDate' = GroupByDate(gwFixtures, provider.tz)
  /\ pc' = "sortFixtures"
  /\ UNCHANGED <<provider, requests, fetched, currentGW, gwFixtures, rankings,
                 outcome, log>>

SortFixtures ==
  /\ pc = "sortFixtures"
  /\ fixturesByDate' = SortDayFixtures(fixturesByDate)
  /\ pc' = "topTransfersIn"
  /\ UNCHANGED <<provider, requests, fetched, currentGW, gwFixtures, rankings,
                 outcome, log>>

RankTopTransfersIn ==
  /\ pc = "topTransfersIn"
  /\ LET out == TopTransfersIn(bootstrap.elements)
     IN  /\ topTransfersIn' = out.result
         /\ bootstrap' = [bootstrap EXCEPT !.elements = out.players]
  /\ pc' = "topTransfersOut"
  /\ UNCHANGED <<provider, requests, fixtures, grouping, topTransfersOut,
                 formPlayers, injuries, priceRisers, priceFallers, outcome, log>>

RankTopTransfersOut ==
  /\ pc = "topTransfersOut"
  /\ LET out == TopTransfersOut(bootstrap.elements)
     IN  /\ topTransfersOut' = out.result
         /\ bootstrap' = [bootstrap EXCEPT !.elements = out.players]
  /\ pc' = "formPlayers"
  /\ UNCHANGED <<provider, requests, fixtures, grouping, topTransfersIn,
                 formPlayers, injuries, priceRisers, priceFallers, outcome, log>>

RankFormPlayers ==
  /\ pc = "formPlayers"
  /\ LET out == FormPlayers(bootstrap.elements)
     IN  /\ formPlayers' = out.result
         /\ bootstrap' = [bootstrap EXCEPT !.elements = out.players]
  /\ pc' = "injuries"
  /\ UNCHANGED <<provider, requests, fixtures, grouping, topTransfersIn,
                 topTransfersOut, injuries, priceRisers, priceFallers, outcome, log>>

RankInjuries ==
  /\ pc = "injuries"
  /\ LET out == Injuries(bootstrap.elements)
     IN  /\ injuries' = out.result
         /\ bootstrap' = [bootstrap EXCEPT !.elements = out.players]
  /\ pc' = "priceRisers"
  /\ UNCHANGED <<provider, requests, fixtures, grouping, topTransfersIn,
                 topTransfersOut, formPlayers, priceRisers, priceFallers, outcome, log>>

RankPriceRisers ==
  /\ pc = "priceRisers"
  /\ LET out == PriceRisers(bootstrap.elements)
     IN  /\ priceRisers' = out.result
         /\ bootstrap' = [bootstrap EXCEPT !.elements = out.players]
  /\ pc' = "priceFallers"
  /\ UNCHANGED <<provider, requests, fixtures, grouping, topTransfersIn,
                 topTransfersOut, formPlayers, injuries, priceFallers, outcome, log>>

RankPriceFallers ==
  /\ pc = "priceFallers"
  /\ LET out == PriceFallers(bootstrap.elements)
     IN  /\ priceFallers' = out.result
         /\ bootstrap' = [bootstrap EXCEPT !.elements = out.players]
  /\ pc' = "render"
  /\ UNCHANGED <<provider, requests, fixtures, grouping, topTransfersIn,
                 topTransfersOut, formPlayers, injuries, priceRisers, outcome, log>>

\* The page template.  It reads currentGW.name (in the curated-content
\* fallback and in the title), which throws when currentGW is undefined.
RenderedPage ==
  [gw       |-> currentGW.id,
   days     |-> [i \in 1..Len(fixturesByDate) |->
                   [date  |-> fixturesByDate[i].date,
                    games |-> [j \in 1..Len(fixturesByDate[i].fixtures) |->
                                 fixturesByDate[i].fixtures[j].id]]],
   injuries |-> [i \in 1..Len(injuries) |->
                   [id |-> injuries[i].id, emoji |-> StatusEmoji(injuries[i].status)]],
   transfersIn  |-> [i \in 1..Len(topTransfersIn) |->
                       [id  |-> topTransfersIn[i].id,
                        pos |-> PositionName(topTransfersIn[i].element_type)]],
   transfersOut |-> [i \in 1..Len(topTransfersOut) |->
                       [id  |-> topTransfersOut[i].id,
                        pos |-> PositionName(topTransfersOut[i].element_type)]],
   form         |-> [i \in 1..Len(formPlayers) |->
                       [id  |-> formPlayers[i].id,
                        pos |-> PositionName(formPlayers[i].element_type)]],
   risers       |-> [i \in 1..Len(priceRisers) |-> priceRisers[i].id],
   fallers      |-> [i \in 1..Len(priceFallers) |-> priceFallers[i].id]]

Render ==
  /\ pc = "render"
  /\ IF currentGW = UNDEFINED
       THEN /\ Fail("TypeError")
            /\ UNCHANGED <<html, files>>
       ELSE /\ html' = RenderedPage
            /\ log' = Append(log, "html-generated")
            /\ pc' = "writeHtml"
            /\ UNCHANGED <<files, error, exitCode>>
  /\ UNCHANGED <<provider, requests, fetched, grouping, rankings>>

WriteHtml ==
  /\ pc = "writeHtml"
  /\ files' = files \cup {"public/index.html"}
  /\ log' = Append(log, "html-written")
  /\ pc' = "writeData"
  /\ UNCHANGED <<provider, requests, fetched, grouping, rankings, html, error,
                 exitCode>>

WriteData ==
  /\ pc = "writeData"
  /\ files' = files \cup {"data.json"}
  /\ log' = log \o <<"data-saved", "build-complete">>
  /\ pc' = "done"
  /\ UNCHANGED <<provider, requests, fetched, grouping, rankings, html, error,
                 exitCode>>

Next ==
  \/ FetchBootstrap
  \/ FetchBootstrapFails
  \/ FetchFixtures
  \/ FetchFixturesFails
  \/ SelectGameweek
  \/ FilterGameweekFixtures
  \/ GroupFixtures
  \/ SortFixtures
  \/ RankTopTransfersIn
  \/ RankTopTransfersOut
  \/ RankFormPlayers
  \/ RankInjuries
  \/ RankPriceRisers
  \/ RankPriceFallers
  \/ Render
  \/ WriteHtml
  \/ WriteData

Spec == Init /\ [][Next]_vars

(***************************************************************************)
(* Properties.                                                             *)
(***************************************************************************)
\* getCurrentGameweek has returned (a fetch failure ends the run before it).
SelectionDone ==
  /\ pc \notin {"fetchBootstrap", "fetchFixtures", "selectGameweek"}
  /\ error # "FetchError"

HasNext(events) == \E i \in 1..Len(events) : events[i].is_next

HasCurrent(events) == \E i \in 1..Len(events) : events[i].is_current

NoFlags(events) == ~HasNext(events) /\ ~HasCurrent(events)

\* C1: for a non-empty gameweek list the selector returns the gameweek with
\* is_next = true whenever there is one, wherever it sits and whether or not
\* another gameweek is current; it returns the gameweek with is_current = true
\* only when no gameweek is next.
C1_NextBeforeCurrent ==
  SelectionDone /\ bootstrap.events # <<>> =>
    LET events == bootstrap.events
    IN  /\ HasNext(events) =>
             currentGW \in Range(events) /\ currentGW.is_next
        /\ ~HasNext(events) /\ HasCurrent(events) =>
             currentGW \in Range(events) /\ currentGW.is_current
        /\ currentGW \in Range(events)
        /\ currentGW.is_current /\ ~currentGW.is_next => ~HasNext(events)

\* A current gameweek precedes the next gameweek in the list, and the next
\* gameweek was selected.
C1_Witness ==
  /\ SelectionDone
  /\ \E i, j \in 1..Len(bootstrap.events) :
       /\ i < j
       /\ bootstrap.events[i].is_current /\ ~bootstrap.events[i].is_next
       /\ bootstrap.events[j].is_next
       /\ currentGW = bootstrap.events[j]

Unfinished(events) == {e \in Range(events) : ~e.finished}

\* C2 as stated: with no next/current flag the selector returns the unfinished
\* gameweek with the smallest id, else the gameweek with the largest id, for
\* every ordering of the list.
C2_SmallestIdAnyOrder ==
  SelectionDone /\ bootstrap.events # <<>> /\ NoFlags(bootstrap.events) =>
    LET events == bootstrap.events
    IN  IF Unfinished(events) # {}
          THEN /\ currentGW \in Unfinished(events)
               /\ \A e \in Unfinished(events) : currentGW.id <= e.id
          ELSE /\ currentGW \in Range(events)
               /\ \A e \in Range(events) : e.id <= currentGW.id

SortedById(events) ==
  \A i, j \in 1..Len(events) : i < j => events[i].id < events[j].id

\* C2 amended: with no next/current flag the selector returns the first
\* unfinished gameweek in list order, else the last element of the list; when
\* the list is in ascending id order these are the unfinished gameweek with
\* the smallest id and the gameweek with the largest id.
C2_FirstInListOrder ==
  SelectionDone /\ bootstrap.events # <<>> /\ NoFlags(bootstrap.events) =>
    LET events == bootstrap.events
    IN  /\ IF Unfinished(events) # {}
             THEN \E i \in 1..Len(events) :
                    /\ currentGW = events[i]
                    /\ ~events[i].finished
                    /\ \A j \in 1..(i - 1) : events[j].finished
             ELSE currentGW = events[Len(events)]
        /\ SortedById(events) =>
             IF Unfinished(events) # {}
               THEN /\ currentGW \in Unfinished(events)
                    /\ \A e \in Unfinished(events) : currentGW.id <= e.id
               ELSE \A e \in Range(events) : e.id <= currentGW.id

\* A list that is not in id order, whose first unfinished gameweek in list
\* order (the one selected) is not the unfinished gameweek with the smallest id.
C2_Witness ==
  /\ SelectionDone
  /\ NoFlags(bootstrap.events)
  /\ ~SortedById(bootstrap.events)
  /\ currentGW \in Unfinished(bootstrap.events)
  /\ \E e \in Unfinished(bootstrap.events) : e.id < currentGW.id

\* C3: selection fails with an EmptyDataSet error exactly when the gameweek
\* list is empty; no undefined gameweek is handed on to later steps, and a
\* non-empty list yields a gameweek without error.
C3_EmptyDataSetIffEmpty ==
  SelectionDone =>
    IF bootstrap.events = <<>>
      THEN pc = "failed" /\ error = "EmptyDataSet"
      ELSE currentGW \in Range(bootstrap.events) /\ error = NONE

\* Fixture grouping and the in-group sort have run.
FixturesSorted ==
  /\ pc \notin {"fetchBootstrap", "fetchFixtures", "selectGameweek",
                "filterFixtures", "groupFixtures", "sortFixtures"}
  /\ error = NONE

\* C4: for every input order of the fixtures the date groups of the reference
\* gameweek are produced, and rendered, in ascending calendar-date order.
C4_GroupsAscendingByDate ==
  /\ \A i, j \in 1..Len(fixturesByDate) :
       i < j => fixturesByDate[i].date < fixturesByDate[j].date
  /\ html # UNDEFINED =>
       \A i, j \in 1..Len(html.days) : i < j => html.days[i].date < html.days[j].date

\* Position of fixture f in the fetched fixture list.
InputPos(f) == CHOOSE i \in 1..Len(fixtures) : fixtures[i] = f

\* C5: within every date group the fixtures are in ascending kickoff order, and
\* fixtures with identical kickoff keep their relative input order.
C5_GroupSortedStable ==
  FixturesSorted =>
    \A g \in 1..Len(fixturesByDate) :
      LET day == fixturesByDate[g].fixtures
      IN  \A a, b \in 1..Len(day) :
            a < b =>
              /\ DateOf(day[a].kickoff_time) <= DateOf(day[b].kickoff_time)
              /\ DateOf(day[a].kickoff_time) = DateOf(day[b].kickoff_time)
                   => InputPos(day[a]) < InputPos(day[b])

\* A date group of three fixtures: two with the same kickoff, and one that
\* comes later in the input but kicks off earlier.
C5_Witness ==
  /\ FixturesSorted
  /\ \E g \in 1..Len(fixturesByDate) :
       LET day == fixturesByDate[g].fixtures
       IN  /\ Len(day) = 3
           /\ \E a, b \in 1..3 :
                /\ a < b
                /\ DateOf(day[a].kickoff_time) = DateOf(day[b].kickoff_time)
           /\ \E a, b \in 1..3 :
                /\ a < b
                /\ InputPos(day[a]) > InputPos(day[b])

(***************************************************************************)
(* Ranking properties.  The decimal value of each ownership/form string is *)
(* written down here in tenths, independently of ParseFloat; a string that *)
(* is no decimal has none (-1).                                            *)
(***************************************************************************)
Tenths(s) ==
  CASE s = Str0_0 -> 0
    [] s = Str0_5 -> 5
    [] s = Str2_0 -> 20
    [] s = Str2_5 -> 25
    [] s = Str3_0 -> 30
    [] s = Str3_5 -> 35
    [] s = Str4_5 -> 45
    [] s = Str10_0 -> 100
    [] s = Str12_5 -> 125
    [] OTHER -> -1

\* All six rankings have just been computed; they are constants of buildHTML,
\* which the template reads next.
RankingsDone == pc = "render"

Players == bootstrap.elements

PlayerPos(p) == CHOOSE i \in 1..Len(Players) : Players[i] = p

AnyPlayer(p) == TRUE
FormMatches(p) == Tenths(p.selected_by_percent) > 20 /\ Tenths(p.form) > 0
RiskMatches(p) == p.status # "a" /\ Tenths(p.selected_by_percent) > 30
RiserMatches(p) == p.cost_change_event > 0
FallerMatches(p) == p.cost_change_event < 0

Matching(Match(_)) == {i \in 1..Len(Players) : Match(Players[i])}

MinOf(a, b) == IF a <= b THEN a ELSE b

LengthOK(result, Match(_), limit) ==
  /\ Len(result) <= limit
  /\ Len(result) = MinOf(Cardinality(Matching(Match)), limit)

\* C6: for every player set, the empty one included, each ranking operation
\* completes without error and returns at most Limit entries (5, or 8 for
\* AvailabilityRisks): none when no player matches, all matching players when
\* fewer than Limit match.
C6_RankingBounds ==
  /\ error = "TypeError" => currentGW = UNDEFINED
  /\ RankingsDone =>
       /\ LengthOK(topTransfersIn, AnyPlayer, 5)
       /\ LengthOK(topTransfersOut, AnyPlayer, 5)
       /\ LengthOK(formPlayers, FormMatches, 5)
       /\ LengthOK(injuries, RiskMatches, 8)
       /\ LengthOK(priceRisers, RiserMatches, 5)
       /\ LengthOK(priceFallers, FallerMatches, 5)

\* Nine players, all of them availability risks and price risers: the rankings
\* are cut to 8 and 5 entries, and PriceFallers is empty.
C6_Witness ==
  /\ RankingsDone
  /\ Len(Players) = 9
  /\ Cardinality(Matching(RiskMatches)) = 9
  /\ Len(injuries) = 8
  /\ Len(topTransfersIn) = 5
  /\ Len(priceRisers) = 5
  /\ priceFallers = <<>>

FilterOK(result, Match(_), limit) ==
  /\ \A p \in Range(result) : p \in Range(Players) /\ Match(p)
  /\ Cardinality(Matching(Match)) <= limit =>
       \A i \in Matching(Match) : Players[i] \in Range(result)

Before(Key(_), p, q) ==
  \/ Key(p) > Key(q)
  \/ Key(p) = Key(q) /\ PlayerPos(p) < PlayerPos(q)

RankedOK(result, Match(_), Key(_), limit) ==
  /\ \A a, b \in 1..Len(result) : a < b => Before(Key, result[a], result[b])
  /\ \A p \in Range(result) : p \in Range(Players) /\ Match(p)
  /\ \A i \in Matching(Match) :
       Players[i] \notin Range(result) =>
         /\ Len(result) = limit
         /\ \A p \in Range(result) : Before(Key, p, Players[i])

TransfersInKey(p) == p.transfers_in_event
TransfersOutKey(p) == p.transfers_out_event
FormKey(p) == Tenths(p.form)
OwnershipKey(p) == Tenths(p.selected_by_percent)
RiseKey(p) == p.cost_change_event
FallKey(p) == 0 - p.cost_change_event

\* C8: each ranking is the first Limit of its matching players in stable sort
\* order: keys non-increasing along the result (most negative first for
\* PriceFallers), equal keys in snapshot order, and no matching player left
\* out ranks before a player that is in.
C8_StableTopK ==
  RankingsDone =>
    /\ RankedOK(topTransfersIn, AnyPlayer, TransfersInKey, 5)
    /\ RankedOK(topTransfersOut, AnyPlayer, TransfersOutKey, 5)
    /\ RankedOK(formPlayers, FormMatches, FormKey, 5)
    /\ RankedOK(injuries, RiskMatches, OwnershipKey, 8)
    /\ RankedOK(priceRisers, RiserMatches, RiseKey, 5)
    /\ RankedOK(priceFallers, FallerMatches, FallKey, 5)

\* More price fallers than the limit: both price changes occur among the five
\* returned, and a faller left out ties with one that is in.
C8_Witness ==
  /\ RankingsDone
  /\ Cardinality(Matching(FallerMatches)) > 5
  /\ Len(priceFallers) = 5
  /\ \E a, b \in 1..5 :
       priceFallers[a].cost_change_event < priceFallers[b].cost_change_event
  /\ \E i \in Matching(FallerMatches) :
       /\ Players[i] \notin Range(priceFallers)
       /\ \E a \in 1..5 :
            priceFallers[a].cost_change_event = Players[i].cost_change_event

Malformed(p) == Tenths(p.selected_by_percent) < 0 \/ Tenths(p.form) < 0

\* C9: a player whose ownership or form string is no decimal does not abort
\* the run, counts as 0 in the FormLeaders and AvailabilityRisks filters, and
\* is reported as a MalformedNumericField diagnostic with the output.
C9_MalformedReported ==
  (bootstrap # UNDEFINED /\ \E p \in Range(Players) : Malformed(p)) =>
    /\ error \in {NONE, "FetchError"}
    /\ RankingsDone =>
         \A p \in Range(Players) :
           /\ Malformed(p) => p \notin Range(formPlayers)
           /\ Tenths(p.selected_by_percent) < 0 => p \notin Range(injuries)
    /\ pc = "done" => "MalformedNumericField" \in Range(log)

KnownStatuses == {"a", "d", "i", "s", "u"}

KnownPositions == 1..4

\* C10: a player whose status code is outside {a, d, i, s, u} or whose position
\* code is outside 1..4 does not abort the run, never appears in
\* AvailabilityRisks when its status is unknown, is reported as an
\* UnknownEnumValue, and is not rendered with a silent default.
C10_UnknownEnumExcluded ==
  (bootstrap # UNDEFINED /\ \E p \in Range(Players) :
      p.status \notin KnownStatuses \/ p.element_type \notin KnownPositions) =>
    /\ error \in {NONE, "FetchError"}
    /\ \A p \in Range(injuries) : p.status \in KnownStatuses
    /\ html # UNDEFINED =>
         /\ \A i \in 1..Len(html.injuries) : html.injuries[i].emoji # "question-mark"
         /\ \A i \in 1..Len(html.transfersIn) : html.transfersIn[i].pos # "undefined"
    /\ pc = "done" => "UnknownEnumValue" \in Range(log)

\* C11: no step of the pipeline changes the contents or the element order of
\* the snapshot's players, fixtures or gameweeks, so each ranking operation
\* returns what it returns on the snapshot as fetched, however many
\* operations ran before it.
C11_SnapshotUnchanged ==
  /\ bootstrap # UNDEFINED =>
       /\ bootstrap.elements = provider.players
       /\ bootstrap.events = provider.events
  /\ (pc \notin {"fetchBootstrap", "fetchFixtures"} /\ error # "FetchError") =>
       fixtures = provider.fixtures
  /\ RankingsDone =>
       /\ topTransfersIn = TopTransfersIn(provider.players).result
       /\ topTransfersOut = TopTransfersOut(provider.players).result
       /\ formPlayers = FormPlayers(provider.players).result
       /\ injuries = Injuries(provider.players).result
       /\ priceRisers = PriceRisers(provider.players).result
       /\ priceFallers = PriceFallers(provider.players).result

\* All six rankings ran over players that the sorts had to reorder; the
\* snapshot still has its order.
C11_Witness ==
  /\ RankingsDone
  /\ Len(provider.players) >= 2
  /\ Sort("transfers_in_event", provider.players) # provider.players
  /\ Sort("transfers_out_event", provider.players) # provider.players
  /\ Sort("form", provider.players) # provider.players
  /\ bootstrap.elements = provider.players
  /\ topTransfersIn # <<>>
  /\ topTransfersIn[1] # provider.players[1]

\* C12: each endpoint is requested at most once, bootstrap before fixtures; a
\* failed request ends the run in the failed state with exit code 1, without a
\* retry, without a request to the remaining endpoint and without writing a
\* file; files are written only after both fetches and the HTML build
\* succeeded.
C12_FetchOnceNoRetry ==
  /\ requests \in {<<>>, <<"bootstrap-static">>, <<"bootstrap-static", "fixtures">>}
  /\ error = "FetchError" =>
       /\ pc = "failed"
       /\ exitCode = 1
       /\ files = {}
       /\ html = UNDEFINED
       /\ bootstrap = UNDEFINED => requests = <<"bootstrap-static">>
  /\ files # {} =>
       /\ requests = <<"bootstrap-static", "fixtures">>
       /\ bootstrap # UNDEFINED
       /\ html # UNDEFINED
       /\ error = NONE
       /\ pc \in {"writeData", "done"}

\* The bootstrap request failed: the run has ended with exit code 1, fixtures
\* was never requested and nothing was written.
C12_Witness ==
  /\ pc = "failed"
  /\ error = "FetchError"
  /\ exitCode = 1
  /\ requests = <<"bootstrap-static">>
  /\ files = {}

====
